---- MODULE Spec2Model ----
(***************************************************************************)
(* Model of the multi-threaded OTF -> TTF batch converter: main() with its *)
(* thread pool, convert_otf_to_ttf running in the pool's workers, the      *)
(* collection loop over as_completed and the final report.                 *)
(*                                                                         *)
(* Strings of the program that are not ASCII are written by their English  *)
(* meaning: "file not found" is the message of line 68, "unknown error"    *)
(* the one of line 86, "system error: " the prefix of line 88 and          *)
(* "task exception: " the prefix of line 145.  A string whose characters   *)
(* matter (a stream, an error message) is a sequence of tokens.            *)
(***************************************************************************)
EXTENDS Integers, Sequences, FiniteSets, TLC

\* ------------------------------------------------------------------ bounds
MaxFiles == 3          \* most matching files in the directory
MaxElapsed == 2        \* longest duration of one conversion, in clock ticks
MaxStderr == 3         \* longest error stream of the converter, in tokens
MaxCpu == 64           \* largest CPU count of the pool-size specification
MaxWall == 2           \* longest wall-clock duration of the run, in clock ticks
MaxTotal == 2001       \* most files of the progress-bar specification

\* --------------------------------------------------------------- constants
ThreadCap == 32        \* min(cpu_cores * 2, 32)
BarLength == 50        \* print_progress_bar(..., length=50, ...)

VARIABLES
    pc,                     \* position of main()
    listing,                \* the file system: what os.listdir meets
    cpu_count,              \* what os.cpu_count() returns (None or a number)
    hung,                   \* the task whose external process never ends, or 0
    raised,                 \* exception that left main(), or NoException
    otf_files,              \* main: list of discovered paths
    total_files,
    cpu_cores,
    max_threads,
    future_to_file,         \* dict of main, in insertion order: task ids
    work_queue,             \* the executor's queue of work items
    num_threads,            \* worker threads the executor has started
    running,                \* tasks a worker is executing now
    future,                 \* task id -> state of its Future
    met,                    \* task id -> the environment its call met
    launched,               \* tasks whose call ran the external process
    completion,             \* task ids in the order their futures finished
    finished_at_call,       \* as_completed: the futures finished at its call
    yielded,                \* task ids in the order handed to the loop
    success_count,
    failed_count,
    processed_count,
    total_processing_time,
    bar,                    \* renderings of print_progress_bar, in order
    result_lines,           \* the per-file result lines written, in order
    console,                \* other messages printed, in order
    report,                 \* the figures of the final report
    failure_list            \* lines of the failure list of the report

vars == <<pc, listing, cpu_count, hung, raised, otf_files, total_files, cpu_cores,
          max_threads, future_to_file, work_queue, num_threads, running,
          future, met, launched, completion, finished_at_call, yielded,
          success_count,
          failed_count,
          processed_count, total_processing_time, bar, result_lines, console,
          report, failure_list>>

envVars == <<listing, cpu_count, hung>>
discVars == <<otf_files, total_files, cpu_cores, max_threads>>
poolVars == <<work_queue, num_threads, running, future, met, launched,
              completion>>
loopVars == <<finished_at_call, yielded>>
statVars == <<success_count, failed_count, processed_count, total_processing_time>>
outVars == <<bar, result_lines, console, report, failure_list>>

\* ----------------------------------------------------------------- helpers
NoException == "NoException"

Min(a, b) == IF a < b THEN a ELSE b

Range(s) == {s[i] : i \in 1..Len(s)}

Last(s) == s[Len(s)]

\* s[:n] of Python
Take(s, n) == SubSeq(s, 1, Min(n, Len(s)))

\* ---------------------------------------------------------- the file system
FontDir == "D:/Software/PotPlayer/otf"

\* a directory entry: a name (stem and extension) and whether it is a file
Entry(stem, ext, isfile) == [stem |-> stem, ext |-> ext, isfile |-> isfile]

\* the k-th font of the directory; the extensions alternate in case
FontEntry(k) == Entry(k, IF k % 2 = 0 THEN ".OTF" ELSE ".otf", TRUE)

\* entries the filter must drop: another extension, and a sub-directory
OtherEntries == <<Entry(0, ".ttf", TRUE), Entry(MaxFiles + 1, ".otf", FALSE)>>

\* what os.listdir(font_dir) can meet: no such path, a path that is no
\* directory, or a directory with n fonts among its entries
Listings ==
    {[status |-> s, entries |-> <<>>] :
        s \in {"FileNotFoundError", "NotADirectoryError"}} \cup
    {[status |-> "ok", entries |-> OtherEntries \o [k \in 1..n |-> FontEntry(k)]] :
        n \in 0..MaxFiles}

\* str.lower() on the extension
Lower(ext) == IF ext = ".OTF" THEN ".otf" ELSE ext

\* os.path.join(directory, f) and os.path.basename(path)
PathJoin(directory, e) == [dir |-> directory, stem |-> e.stem, ext |-> e.ext]
Basename(path) == [stem |-> path.stem, ext |-> path.ext]

\* mutant: the filter without the os.path.isfile test
IsOtfName(e) == Lower(e.ext) = ".otf"

IsOtfFile(e) == Lower(e.ext) = ".otf" /\ e.isfile

RECURSIVE FilterOtf(_, _)
FilterOtf(directory, entries) ==
    IF entries = <<>> THEN <<>>
    ELSE (IF IsOtfFile(Head(entries))
          THEN <<PathJoin(directory, Head(entries))>> ELSE <<>>)
         \o FilterOtf(directory, Tail(entries))

\* mutant: a directory that cannot be listed is taken for an empty one
get_otf_files_quiet(directory, ls) ==
    [raised |-> NoException,
     files |-> IF ls.status # "ok" THEN <<>> ELSE FilterOtf(directory, ls.entries)]

\* get_otf_files: os.listdir raises when the directory cannot be listed,
\* and nothing in get_otf_files or main() catches it
get_otf_files(directory, ls) ==
    IF ls.status # "ok"
    THEN [raised |-> ls.status, files |-> <<>>]
    ELSE [raised |-> NoException, files |-> FilterOtf(directory, ls.entries)]

\* ------------------------------------------------------------------ strings
\* A string is a sequence of tokens; " " and "\n" are its whitespace.
IsSpace(c) == c \in {" ", "\n"}

RECURSIVE LStrip(_)
LStrip(s) == IF s # <<>> /\ IsSpace(Head(s)) THEN LStrip(Tail(s)) ELSE s

RECURSIVE RStrip(_)
RStrip(s) ==
    IF s # <<>> /\ IsSpace(Last(s)) THEN RStrip(SubSeq(s, 1, Len(s) - 1)) ELSE s

\* str.strip()
Strip(s) == RStrip(LStrip(s))

RECURSIVE SplitFrom(_, _, _)
\* str.split(sep): cur is the piece being read; the result is never empty
SplitFrom(s, sep, cur) ==
    IF s = <<>> THEN <<cur>>
    ELSE IF Head(s) = sep THEN <<cur>> \o SplitFrom(Tail(s), sep, <<>>)
    ELSE SplitFrom(Tail(s), sep, Append(cur, Head(s)))

Split(s, sep) == SplitFrom(s, sep, <<>>)

\* ------------------------------------------------------- convert_otf_to_ttf
\* the result dict of line 63
InitialResult(filename) ==
    [filename |-> filename, success |-> FALSE, error |-> <<>>, time |-> 0]

\* What one call meets.  early: an exception raised by lines 61-63, before
\* the try block is entered.  exists: os.path.exists(file_path).  launch:
\* the exception subprocess.run raises, or NoException.  returncode and
\* stderr: what the process leaves.  elapsed: time.time() - start_time.
Env(early, exists, launch, returncode, stderr, elapsed) ==
    [early |-> early, exists |-> exists, launch |-> launch,
     returncode |-> returncode, stderr |-> stderr, elapsed |-> elapsed]

\* the outcome of a call: a returned result, or an exception that leaves it
Returned(result) == [raised |-> FALSE, exc |-> <<>>, result |-> result]
Escaped(exc, filename) ==
    [raised |-> TRUE, exc |-> exc, result |-> InitialResult(filename)]

\* mutant: subprocess.run is reached whether or not the file exists
LaunchesUnchecked(env) == env.early = NoException

\* lines 61-72: the call reaches subprocess.run when nothing raised before
\* the try block and the test of line 67 found the file
Launches(env) == env.early = NoException /\ env.exists

\* lines 85-86
ErrorOfStderr(stderr) ==
    LET error_lines == Split(Strip(stderr), "\n")
    IN  IF error_lines # <<>> THEN Last(error_lines) ELSE <<"unknown error">>

\* lines 65-88: the try block with its except clause, entered when lines
\* 61-63 raised nothing; without the file it ends before subprocess.run
TryBlock(result, env) ==
    IF ~Launches(env) THEN [result EXCEPT !.error = <<"file not found">>]
    ELSE IF env.launch # NoException
         THEN [result EXCEPT !.error = <<"system error: ", env.launch>>]
    ELSE IF env.returncode = 0 THEN [result EXCEPT !.success = TRUE]
    ELSE [result EXCEPT !.error = ErrorOfStderr(env.stderr)]

\* mutant: no except clause and no return in the finally clause, so that a
\* failure to launch leaves the function
convert_without_except(file_path, env) ==
    IF env.early # NoException
    THEN Escaped(<<env.early>>, Basename(file_path))
    ELSE IF env.exists /\ env.launch # NoException
    THEN Escaped(<<env.launch>>, Basename(file_path))
    ELSE Returned([TryBlock(InitialResult(Basename(file_path)), env)
                       EXCEPT !.time = env.elapsed])

\* lines 59-91; the finally clause sets the time and returns in every case
convert_otf_to_ttf(file_path, env) ==
    IF env.early # NoException
    THEN Escaped(<<env.early>>, Basename(file_path))
    ELSE Returned([TryBlock(InitialResult(Basename(file_path)), env)
                       EXCEPT !.time = env.elapsed])

\* The environments of the run's specification, one for each way a call can
\* end as the run sees it: an exception before the try block, a failure to
\* launch (the executable is absent), a failing converter, and a success;
\* the durations differ.
FailingConverter ==
    Env(NoException, TRUE, NoException, 1,
        <<"bad", " ", "glyph", " ", "table", "\n">>, 3)

Envs ==
    {Env("MemoryError", TRUE, NoException, 0, <<>>, 0),
     Env(NoException, TRUE, "FileNotFoundError: otf2ttf", 0, <<>>, 1),
     FailingConverter,
     Env(NoException, TRUE, NoException, 0, <<>>, 2)}

\* Every environment of one call, for the specification of the call alone:
\* the error stream is any string of at most MaxStderr tokens
Alphabet == {"a", "b", " ", "\n"}

RECURSIVE Strings(_)
Strings(n) ==
    IF n = 0 THEN {<<>>}
    ELSE Strings(n - 1) \cup
         {Append(s, c) : s \in {x \in Strings(n - 1) : Len(x) = n - 1}, c \in Alphabet}

AllEnvs ==
    {Env(early, exists, launch, returncode, stderr, elapsed) :
        early \in {NoException, "MemoryError"},
        exists \in BOOLEAN,
        launch \in {NoException, "FileNotFoundError: otf2ttf", "OSError: broken pipe"},
        returncode \in {0, 1},
        stderr \in Strings(MaxStderr),
        elapsed \in 0..MaxElapsed}

\* ------------------------------------------------------------- the futures
\* a Future: PENDING in the queue, RUNNING in a worker, FINISHED with the
\* outcome of the call (set_result or set_exception)
NewFuture(file_path) ==
    [state |-> "PENDING", outcome |-> Returned(InitialResult(Basename(file_path)))]

Tasks == 1..Len(future_to_file)

Finished(t) == future[t].state = "FINISHED"

\* ---------------------------------------------------------------- progress
\* "{0:.1f}".format(100 * (iteration / float(total))), in tenths of a percent:
\* the tenth nearest to the double 100 * (iteration / total).  When the exact
\* quotient lies halfway between two tenths, the rounding of the double
\* decides which side it falls on: either tenth can be the one written.
PercentTenths(iteration, total) ==
    LET q == (1000 * iteration) \div total
        r == (1000 * iteration) % total
    IN  IF 2 * r > total THEN {q + 1}
        ELSE IF 2 * r = total THEN {q, q + 1}
        ELSE {q}

\* lines 44-52: what one call can render
print_progress_bar(iteration, total) ==
    {[iteration |-> iteration,
      percent |-> p,
      filled_length |-> (BarLength * iteration) \div total,
      newline |-> (iteration = total)] : p \in PercentTenths(iteration, total)}

\* --------------------------------------------------------------- os.cpu_count
\* os.cpu_count() returns None (here <<>>) or a number (here <<n>>); the
\* machines of the run's specification give pools of 2 and of 4 threads
CpuCounts == {<<>>, <<2>>}

\* os.cpu_count() or 1: None and 0 are false
CpuCores(c) == IF c = <<>> \/ c[1] = 0 THEN 1 ELSE c[1]

\* mutant: a pool of one thread
MaxThreadsOne(cores) == 1

\* mutant: the pool size without its cap
MaxThreadsUncapped(cores) == cores * 2

\* line 111
MaxThreads(cores) == Min(cores * 2, ThreadCap)

\* ------------------------------------------------------------------- Init
\* the state before main() is called, in a file system, on a machine and
\* with a hanging converter (0: none hangs) drawn from the given sets
InitIn(listings, cpu_counts, hangs) ==
    /\ pc = "Idle"
    /\ listing \in listings
    /\ cpu_count \in cpu_counts
    /\ hung \in hangs
    /\ raised = NoException
    /\ otf_files = <<>>
    /\ total_files = 0
    /\ cpu_cores = 0
    /\ max_threads = 0
    /\ future_to_file = <<>>
    /\ work_queue = <<>>
    /\ num_threads = 0
    /\ running = {}
    /\ future = <<>>
    /\ met = <<>>
    /\ launched = {}
    /\ completion = <<>>
    /\ finished_at_call = {}
    /\ yielded = <<>>
    /\ success_count = 0
    /\ failed_count = 0
    /\ processed_count = 0
    /\ total_processing_time = 0
    /\ bar = <<>>
    /\ result_lines = <<>>
    /\ console = <<>>
    /\ report = <<>>
    /\ failure_list = <<>>

Init == InitIn(Listings, CpuCounts, {0})

\* ------------------------------------------------------------------ main()
\* lines 93-99: main() is entered
Begin ==
    /\ pc = "Idle"
    /\ pc' = "Discovering"
    /\ UNCHANGED <<envVars, raised, discVars, future_to_file, poolVars,
                   loopVars, statVars, outVars>>

\* mutant: the empty case without its return, so that the run goes on
DiscoverWithoutReturn ==
    /\ pc = "Discovering"
    /\ LET found == get_otf_files(FontDir, listing)
       IN  IF found.raised # NoException
           THEN /\ raised' = found.raised
                /\ pc' = "Raised"
                /\ UNCHANGED <<discVars, console>>
           ELSE /\ otf_files' = found.files
                /\ total_files' = Len(found.files)
                /\ raised' = raised
                /\ cpu_cores' = CpuCores(cpu_count)
                /\ max_threads' = MaxThreads(CpuCores(cpu_count))
                /\ console' = Append(console, "banner")
                /\ pc' = "Dispatching"
    /\ UNCHANGED <<envVars, future_to_file, poolVars, loopVars, statVars,
                   bar, result_lines, report, failure_list>>

\* lines 102-124: discovery, the empty case, the pool size, the banner and
\* the counters
Discover ==
    /\ pc = "Discovering"
    /\ LET found == get_otf_files(FontDir, listing)
       IN  IF found.raised # NoException
           THEN /\ raised' = found.raised
                /\ pc' = "Raised"
                /\ UNCHANGED <<discVars, console>>
           ELSE /\ otf_files' = found.files
                /\ total_files' = Len(found.files)
                /\ raised' = raised
                /\ IF Len(found.files) = 0
                   THEN /\ console' = Append(console, "error: no OTF files found")
                        /\ pc' = "Aborted"
                        /\ UNCHANGED <<cpu_cores, max_threads>>
                   ELSE /\ cpu_cores' = CpuCores(cpu_count)
                        /\ max_threads' = MaxThreads(CpuCores(cpu_count))
                        /\ console' = Append(console, "banner")
                        /\ pc' = "Dispatching"
    /\ UNCHANGED <<envVars, future_to_file, poolVars, loopVars, statVars,
                   bar, result_lines, report, failure_list>>

\* lines 127-132, one turn of the comprehension: executor.submit creates the
\* Future, queues the work item and starts a worker thread while fewer than
\* max_workers are started
Submit ==
    /\ pc = "Dispatching"
    /\ Len(future_to_file) < total_files
    /\ LET t == Len(future_to_file) + 1
       IN  /\ future_to_file' = Append(future_to_file, otf_files[t])
           /\ future' = Append(future, NewFuture(otf_files[t]))
           /\ met' = Append(met, <<>>)
           /\ work_queue' = Append(work_queue, t)
    /\ num_threads' = IF num_threads < max_threads THEN num_threads + 1
                      ELSE num_threads
    /\ UNCHANGED <<pc, envVars, raised, discVars, running, launched, completion,
                   loopVars, statVars, outVars>>

\* mutant: a work item starts whether or not a worker thread is free
WorkerStartUnbounded(t) ==
    /\ work_queue # <<>>
    /\ t = Head(work_queue)
    /\ work_queue' = Tail(work_queue)
    /\ running' = running \cup {t}
    /\ future' = [future EXCEPT ![t].state = "RUNNING"]
    /\ UNCHANGED <<pc, envVars, raised, discVars, future_to_file, num_threads,
                   met, launched, completion, loopVars, statVars, outVars>>

\* a worker thread that is free takes the oldest work item of the queue
WorkerStart(t) ==
    /\ work_queue # <<>>
    /\ t = Head(work_queue)
    /\ Cardinality(running) < num_threads
    /\ work_queue' = Tail(work_queue)
    /\ running' = running \cup {t}
    /\ future' = [future EXCEPT ![t].state = "RUNNING"]
    /\ UNCHANGED <<pc, envVars, raised, discVars, future_to_file, num_threads,
                   met, launched, completion, loopVars, statVars, outVars>>

\* mutant: the worker counts its own success
WorkerFinishCounting(t, env) ==
    /\ t \in running
    /\ t # hung
    /\ running' = running \ {t}
    /\ future' = [future EXCEPT
                    ![t] = [state |-> "FINISHED",
                            outcome |-> convert_otf_to_ttf(future_to_file[t], env)]]
    /\ met' = [met EXCEPT ![t] = <<env>>]
    /\ launched' = IF Launches(env) THEN launched \cup {t} ELSE launched
    /\ completion' = Append(completion, t)
    /\ success_count' = success_count + 1
    /\ UNCHANGED <<pc, envVars, raised, discVars, future_to_file, work_queue,
                   num_threads, loopVars, failed_count, processed_count,
                   total_processing_time, outVars>>

\* the worker's call of convert_otf_to_ttf ends: the Future gets the result
\* or the exception, and the worker is free again.  subprocess.run has no
\* timeout (lines 72-78): the call of a task whose process hangs never ends.
WorkerFinish(t, env) ==
    /\ t \in running
    /\ t # hung
    /\ running' = running \ {t}
    /\ future' = [future EXCEPT
                    ![t] = [state |-> "FINISHED",
                            outcome |-> convert_otf_to_ttf(future_to_file[t], env)]]
    /\ met' = [met EXCEPT ![t] = <<env>>]
    /\ launched' = IF Launches(env) THEN launched \cup {t} ELSE launched
    /\ completion' = Append(completion, t)
    /\ UNCHANGED <<pc, envVars, raised, discVars, future_to_file, work_queue,
                   num_threads, loopVars, statVars, outVars>>

\* line 135, the call of as_completed once every task is submitted: it
\* notes the futures that are finished by now, which it yields first
AsCompleted ==
    /\ pc = "Dispatching"
    /\ Len(future_to_file) = total_files
    /\ finished_at_call' = {t \in Tasks : Finished(t)}
    /\ pc' = "Collecting"
    /\ UNCHANGED <<envVars, raised, discVars, future_to_file, poolVars, yielded,
                   statVars, outVars>>

\* mutant: a future already yielded can be yielded again
NextYieldAgain == {t \in Tasks : Finished(t)}

\* The futures as_completed can yield next: any one of those finished at its
\* call while some are left (it walks a set of them); after that the
\* futures finished since, oldest first (the waiter's list of them).
NextYield ==
    LET snapshot == finished_at_call \ Range(yielded)
        later == SelectSeq(completion, LAMBDA t : t \notin Range(yielded))
    IN  IF snapshot # {} THEN snapshot
        ELSE IF later = <<>> THEN {} ELSE {Head(later)}

\* mutant: the result made of an exception names no file
ResultOfLost(t) ==
    IF future[t].outcome.raised
    THEN [filename |-> [stem |-> 0, ext |-> ""],
          success |-> FALSE,
          error |-> <<"task exception: ">> \o future[t].outcome.exc,
          time |-> 0]
    ELSE future[t].outcome.result

\* lines 139-147: future.result(), an exception of the task made a result
ResultOf(t) ==
    IF future[t].outcome.raised
    THEN [filename |-> Basename(future_to_file[t]),
          success |-> FALSE,
          error |-> <<"task exception: ">> \o future[t].outcome.exc,
          time |-> 0]
    ELSE future[t].outcome.result

\* mutant: success_count is incremented outside the if
UpdateStatisticsAlways(result) ==
    /\ success_count' = success_count + 1
    /\ failed_count' = IF result.success THEN failed_count ELSE failed_count + 1
    /\ total_processing_time' = total_processing_time + result.time

\* mutant: the time of a failed result is left out of the total
UpdateStatisticsOfSuccesses(result) ==
    /\ IF result.success
       THEN /\ success_count' = success_count + 1
            /\ failed_count' = failed_count
            /\ total_processing_time' = total_processing_time + result.time
       ELSE /\ failed_count' = failed_count + 1
            /\ success_count' = success_count
            /\ total_processing_time' = total_processing_time

\* lines 150-157: the counters after a result
UpdateStatistics(result) ==
    /\ IF result.success
       THEN /\ success_count' = success_count + 1
            /\ failed_count' = failed_count
       ELSE /\ failed_count' = failed_count + 1
            /\ success_count' = success_count
    /\ total_processing_time' = total_processing_time + result.time

\* lines 160-170: the result line
ResultLine(count, result) ==
    [count |-> count, filename |-> result.filename, success |-> result.success,
     time |-> result.time,
     error |-> IF result.success THEN <<>> ELSE Take(result.error, 50)]

\* lines 136-137 and 149-173: what the loop does with the result of task t
Consume(t, result) ==
    /\ yielded' = Append(yielded, t)
    /\ processed_count' = processed_count + 1
    /\ UpdateStatistics(result)
    /\ \E r \in print_progress_bar(processed_count + 1, total_files) :
          bar' = Append(bar, r)
    /\ result_lines' = Append(result_lines, ResultLine(processed_count + 1, result))
    /\ UNCHANGED <<pc, envVars, raised, discVars, future_to_file, poolVars,
                   finished_at_call, console, report, failure_list>>

\* mutant: future.result() outside any try, so that the exception of a task
\* leaves main()
CollectNoExcept(t) ==
    /\ pc = "Collecting"
    /\ t \in NextYield
    /\ IF future[t].outcome.raised
       THEN /\ pc' = "Raised"
            /\ raised' = future[t].outcome.exc[1]
            /\ yielded' = Append(yielded, t)
            /\ processed_count' = processed_count + 1
            /\ UNCHANGED <<envVars, discVars, future_to_file, poolVars,
                           finished_at_call, success_count, failed_count,
                           total_processing_time, outVars>>
       ELSE Consume(t, future[t].outcome.result)

\* lines 135-173, one turn of the loop for the future as_completed yields
Collect(t) ==
    /\ pc = "Collecting"
    /\ t \in NextYield
    /\ Consume(t, ResultOf(t))

\* mutant: the loop ends when no finished future is left to yield, and the
\* pool is left without waiting for the workers
ExitPoolEarly ==
    /\ pc = "Collecting"
    /\ NextYield = {}
    /\ pc' = "Reporting"
    /\ UNCHANGED <<envVars, raised, discVars, future_to_file, poolVars,
                   loopVars, statVars, outVars>>

\* lines 135 and 174: as_completed is exhausted, and leaving the with
\* block joins the workers (shutdown(wait=True))
ExitPool ==
    /\ pc = "Collecting"
    /\ Len(yielded) = Len(future_to_file)
    /\ running = {} /\ work_queue = <<>>
    /\ pc' = "Reporting"
    /\ UNCHANGED <<envVars, raised, discVars, future_to_file, poolVars,
                   loopVars, statVars, outVars>>

RECURSIVE FailureLinesAsYielded(_)
\* mutant: the failure list in the order the results reached the loop
FailureLinesAsYielded(i) ==
    IF i > Len(yielded) THEN <<>>
    ELSE (IF ~future[yielded[i]].outcome.raised
             /\ ~future[yielded[i]].outcome.result.success
          THEN <<[filename |-> future[yielded[i]].outcome.result.filename,
                  error |-> future[yielded[i]].outcome.result.error]>>
          ELSE <<>>) \o FailureLinesAsYielded(i + 1)

RECURSIVE FailureLines(_)
\* lines 192-198 over the futures from the i-th on, in the dict's order: a
\* future whose result() raises is passed over by the bare except
FailureLines(i) ==
    IF i > Len(future_to_file) THEN <<>>
    ELSE (IF ~future[i].outcome.raised /\ ~future[i].outcome.result.success
          THEN <<[filename |-> future[i].outcome.result.filename,
                  error |-> future[i].outcome.result.error]>>
          ELSE <<>>) \o FailureLines(i + 1)

\* a quotient a / b, kept as the pair of its terms
Quotient(a, b) == [num |-> a, den |-> b]
Zero == Quotient(0, 1)

\* line 178
AvgTimePerFile(total_time, files) ==
    IF files > 0 THEN Quotient(total_time, files) ELSE Zero

\* mutant: the throughput without the test of the duration
FilesPerSecondUnguarded(successes, total_duration) ==
    Quotient(successes, total_duration)

\* line 179
FilesPerSecond(successes, total_duration) ==
    IF total_duration > 0 THEN Quotient(successes, total_duration) ELSE Zero

\* lines 176-200: the figures, the report and the failure list;
\* total_duration is end_total_time - start_total_time
Report(total_duration) ==
    /\ pc = "Reporting"
    /\ report' = <<[success |-> success_count,
                    failed |-> failed_count,
                    total_duration |-> total_duration,
                    avg_time_per_file |->
                        AvgTimePerFile(total_processing_time, total_files),
                    files_per_second |->
                        FilesPerSecond(success_count, total_duration)]>>
    /\ console' = Append(console, "report")
    /\ failure_list' = IF failed_count > 0 THEN FailureLines(1) ELSE <<>>
    /\ pc' = "Done"
    /\ UNCHANGED <<envVars, raised, discVars, future_to_file, poolVars,
                   loopVars, statVars, bar, result_lines>>

\* the steps of the main thread
MainThread ==
    \/ Begin
    \/ Discover
    \/ Submit
    \/ AsCompleted
    \/ \E t \in Tasks : Collect(t)
    \/ ExitPool
    \/ \E d \in 0..MaxWall : Report(d)

Next ==
    \/ MainThread
    \/ \E t \in Tasks : WorkerStart(t)
    \/ \E t \in running : \E env \in Envs : WorkerFinish(t, env)

Spec == Init /\ [][Next]_vars

\* The run with a main thread that keeps running, workers that take the
\* queued work when free, and external calls that all return.  The outcomes
\* that the run tells apart suffice here: an exception of the task, a
\* failure (the executable is absent) and a success.
LiveEnvs == Envs \ {FailingConverter}

LiveNext ==
    \/ MainThread
    \/ \E t \in Tasks : WorkerStart(t)
    \/ \E t \in running : \E env \in LiveEnvs : WorkerFinish(t, env)

FairSpec ==
    /\ Init
    /\ [][LiveNext]_vars
    /\ WF_vars(MainThread)
    /\ WF_vars(\E t \in Tasks : WorkerStart(t))
    /\ WF_vars(\E t \in running : \E env \in LiveEnvs : WorkerFinish(t, env))

\* ------------------------------------------- the specification of one call
\* A run over a directory of one font, whose call meets any environment.
OneFont == [status |-> "ok", entries |-> OtherEntries \o <<FontEntry(1)>>]

ConvInit == InitIn({OneFont}, {<<>>}, {0})

ConvNext ==
    \/ MainThread
    \/ \E t \in Tasks : WorkerStart(t)
    \/ \E t \in running : \E env \in AllEnvs : WorkerFinish(t, env)

ConvSpec == ConvInit /\ [][ConvNext]_vars

\* ------------------------------- the specification of a file that is gone
\* A run over two fonts, either of which can be gone when its call looks
\* for it (line 67): deleted between the listing and the call.
MissingFile == Env(NoException, FALSE, NoException, 0, <<>>, 1)

TwoFonts ==
    [status |-> "ok", entries |-> OtherEntries \o <<FontEntry(1), FontEntry(2)>>]

MissInit == InitIn({TwoFonts}, {<<>>}, {0})

MissNext ==
    \/ MainThread
    \/ \E t \in Tasks : WorkerStart(t)
    \/ \E t \in running : \E env \in Envs \cup {MissingFile} : WorkerFinish(t, env)

MissSpec == MissInit /\ [][MissNext]_vars

\* ---------------------------------- the specification of the progress bar
\* The loop of lines 135-173 reduced to its counter and its progress bar,
\* over directories of few files and of many.  The loop is taken up at any
\* of its last turns, so that bar holds the renderings of those turns only.
BarTotals == (1..MaxFiles) \cup ((MaxTotal - MaxFiles)..MaxTotal)

BarTail == 2 * MaxFiles

BarInit ==
    /\ pc = "Collecting"
    /\ total_files \in BarTotals
    /\ processed_count \in {k \in 0..total_files : total_files - k <= BarTail}
    /\ bar = <<>>
    /\ listing = OneFont /\ cpu_count = <<>> /\ hung = 0
    /\ raised = NoException
    /\ otf_files = <<>> /\ cpu_cores = 1 /\ max_threads = MaxThreads(1)
    /\ future_to_file = <<>> /\ work_queue = <<>> /\ num_threads = 0
    /\ running = {} /\ future = <<>> /\ met = <<>> /\ launched = {}
    /\ completion = <<>> /\ finished_at_call = {} /\ yielded = <<>>
    /\ success_count = 0 /\ failed_count = 0 /\ total_processing_time = 0
    /\ result_lines = <<>> /\ console = <<>> /\ report = <<>>
    /\ failure_list = <<>>

\* lines 151 and 165 of one turn of the loop
Render ==
    /\ pc = "Collecting"
    /\ processed_count < total_files
    /\ processed_count' = processed_count + 1
    /\ \E r \in print_progress_bar(processed_count + 1, total_files) :
          bar' = Append(bar, r)
    /\ UNCHANGED <<pc, envVars, raised, discVars, future_to_file, poolVars,
                   loopVars, success_count, failed_count, total_processing_time,
                   result_lines, console, report, failure_list>>

BarSpec == BarInit /\ [][Render]_vars

\* ------------------------------ the specification of a converter that hangs
\* The run on a machine whose pool has two threads, where the external
\* process of one task never ends; the main thread and the other worker keep
\* running, and the other external calls return.
HungInit == InitIn({ls \in Listings : ls.status = "ok"}, {<<>>}, 1..MaxFiles)

HungSpec ==
    /\ HungInit
    /\ [][LiveNext]_vars
    /\ WF_vars(MainThread)
    /\ WF_vars(\E t \in Tasks : WorkerStart(t))
    /\ WF_vars(\E t \in running : \E env \in LiveEnvs : WorkerFinish(t, env))

\* ------------------------------------- the specification of the pool size
\* The start of a run on a machine of any CPU count, up to the dispatch.
SizeInit == InitIn({OneFont}, {<<>>} \cup {<<n>> : n \in 1..MaxCpu}, {0})

SizeNext == Begin \/ Discover

SizeSpec == SizeInit /\ [][SizeNext]_vars

\* ================================================================ properties
\* the place of task t in the sequence s that holds it
Pos(s, t) == CHOOSE i \in 1..Len(s) : s[i] = t

\* the fonts of the directory, read off the listing itself
FontsListed ==
    {i \in 1..Len(listing.entries) :
        listing.entries[i].isfile /\ listing.entries[i].ext \in {".otf", ".OTF"}}

\* main() is past the discovery
Discovered == pc \notin {"Idle", "Discovering"}

\* C1: the collection loop consumes exactly one result for each submitted
\* task, in any order of completion: no task is consumed twice, none is
\* left out when the loop has ended (processed_count = total_files then),
\* and a run that found no file consumes nothing.
C1_EveryTaskConsumedOnce ==
    /\ processed_count = Len(yielded)
    /\ Len(result_lines) = processed_count
    /\ \A i, j \in 1..Len(yielded) : yielded[i] = yielded[j] => i = j
    /\ Range(yielded) \subseteq Tasks
    /\ pc \in {"Reporting", "Done"} =>
          /\ processed_count = total_files
          /\ Len(future_to_file) = total_files
          /\ Range(yielded) = 1..total_files
    /\ pc = "Aborted" => total_files = 0 /\ processed_count = 0

\* a run of three files whose results came in another order than submitted
C1_Witness ==
    pc = "Reporting" /\ total_files = 3 /\ processed_count = 3 /\ yielded = <<2, 3, 1>>

\* C2: after every result consumed success_count + failed_count is
\* processed_count, each counter is the number of results of its kind, and
\* after the loop the two add up to total_files.
C2_CountsAddUp ==
    /\ success_count + failed_count = processed_count
    /\ success_count =
          Cardinality({i \in 1..Len(result_lines) : result_lines[i].success})
    /\ failed_count =
          Cardinality({i \in 1..Len(result_lines) : ~result_lines[i].success})
    /\ pc \in {"Reporting", "Done"} => success_count + failed_count = total_files

\* a finished run with results of both kinds
C2_Witness ==
    pc = "Done" /\ total_files = 3 /\ success_count = 1 /\ failed_count = 2

\* C3: when the directory cannot be listed (it does not exist, or is no
\* directory) the run ends in discovery with that error raised out of
\* main(): nothing is submitted, no worker is started, nothing else is
\* printed; and no other run ends that way.
C3_MissingDirectoryAborts ==
    /\ (listing.status # "ok" /\ Discovered) =>
          /\ pc = "Raised"
          /\ raised = listing.status
          /\ future_to_file = <<>> /\ work_queue = <<>> /\ num_threads = 0
          /\ console = <<>> /\ report = <<>>
    /\ (pc = "Raised" \/ raised # NoException) => listing.status # "ok"

C3_Witness ==
    pc = "Raised" /\ raised = "FileNotFoundError" /\ listing.status = "FileNotFoundError"

\* C4: when the directory holds no font, main() prints that no file was
\* found and returns: no pool, no task, no progress bar, no result line, no
\* report; and only such a run ends that way.
C4_NoFilesEndsRun ==
    /\ (listing.status = "ok" /\ FontsListed = {} /\ Discovered) =>
          /\ pc = "Aborted"
          /\ console = <<"error: no OTF files found">>
          /\ future_to_file = <<>> /\ work_queue = <<>> /\ num_threads = 0
          /\ max_threads = 0
          /\ bar = <<>> /\ result_lines = <<>>
          /\ report = <<>> /\ failure_list = <<>>
    /\ pc = "Aborted" => (listing.status = "ok" /\ FontsListed = {})

C4_Witness ==
    /\ pc = "Aborted" /\ console = <<"error: no OTF files found">>
    /\ Len(listing.entries) = 2 /\ total_files = 0

\* C5: a call of convert_otf_to_ttf that has entered its try block returns
\* a result whatever the launch of the process and the process do: the
\* result names the file and holds the elapsed time, and when the launch
\* fails it is a failure whose error is "system error: " and the detail.
C5_ConvertAlwaysReturns ==
    \A t \in Tasks :
        (Finished(t) /\ met[t][1].early = NoException) =>
            LET env == met[t][1]
                out == future[t].outcome
            IN  /\ ~out.raised
                /\ out.result.filename = Basename(future_to_file[t])
                /\ out.result.time = env.elapsed
                /\ (env.exists /\ env.launch # NoException) =>
                      /\ ~out.result.success
                      /\ out.result.error = <<"system error: ", env.launch>>

\* a call whose launch failed, and returned
C5_Witness ==
    /\ Len(future) = 1 /\ Finished(1)
    /\ met[1][1].early = NoException /\ met[1][1].exists
    /\ met[1][1].launch = "OSError: broken pipe"
    /\ ~future[1].outcome.raised

\* C6: when the call of a task raises, the loop makes a failed result of
\* it (the file name of the task, success false, the error wrapped), counts
\* it as a failure and goes on: main() does not raise, and the loop ends
\* only when every task is consumed.
C6_EscapedErrorBecomesFailure ==
    /\ \A i \in 1..Len(yielded) :
          future[yielded[i]].outcome.raised =>
              /\ i <= Len(result_lines)
              /\ result_lines[i].filename = Basename(future_to_file[yielded[i]])
              /\ ~result_lines[i].success
              /\ result_lines[i].error =
                    <<"task exception: ">> \o future[yielded[i]].outcome.exc
    /\ failed_count >=
          Cardinality({t \in Range(yielded) : future[t].outcome.raised})
    /\ Len(future_to_file) > 0 => (raised = NoException /\ pc # "Raised")
    /\ pc \in {"Reporting", "Done"} =>
          /\ Range(yielded) = Tasks
          /\ \A t \in Tasks : Finished(t)

\* the first task consumed had raised, and its two siblings succeeded after it
C6_Witness ==
    /\ pc = "Done" /\ Len(yielded) = 3
    /\ future[yielded[1]].outcome.raised
    /\ failed_count = 1 /\ success_count = 2

\* the failed results the loop has seen, as the file names and errors
FailuresSeen ==
    {[filename |-> ResultOf(t).filename, error |-> ResultOf(t).error] :
        t \in {u \in Range(yielded) : ~ResultOf(u).success}}

\* C7: in the final report the failure list holds every failed task exactly
\* once, with its file name and error: as many lines as failed_count, and
\* the failures listed are the failures counted.
C7_FailureListComplete ==
    pc = "Done" =>
        /\ Len(failure_list) = failed_count
        /\ Range(failure_list) = FailuresSeen
        /\ \A i, j \in 1..Len(failure_list) :
              failure_list[i].filename = failure_list[j].filename => i = j

\* C8: once a task is submitted the run reaches Done with its report
\* printed, whatever the outcomes of the tasks.
C8_RunReachesDone ==
    (Len(future_to_file) > 0) ~>
        (pc = "Done" /\ report # <<>> /\ console = <<"banner", "report">>)

\* the executable is absent: three failures, no success, and the report
C8_Witness ==
    /\ pc = "Done" /\ total_files = 3
    /\ \A t \in Tasks : met[t][1].launch = "FileNotFoundError: otf2ttf"
    /\ report[1].failed = 3 /\ report[1].success = 0

\* the worker pool never runs more calls than it has threads, nor has more
\* threads than max_threads
PoolBounded ==
    /\ Cardinality(running) <= num_threads
    /\ num_threads <= max_threads
    /\ running = {t \in Tasks : future[t].state = "RUNNING"}

\* C9 as stated: at most max_threads calls run at once, and the results
\* reach the loop in the order of completion.
C9_CompletionOrder ==
    /\ PoolBounded
    /\ Range(yielded) \subseteq Range(completion)
    /\ \A i, j \in 1..Len(yielded) :
          i < j => Pos(completion, yielded[i]) < Pos(completion, yielded[j])

\* C9 as amended: at most max_threads calls run at once; a result reaches
\* the loop only once its call has ended; the results of the calls that
\* ended before the loop began come first, in any order, and the others
\* follow in the order of completion.
C9_YieldOrder ==
    /\ PoolBounded
    /\ Range(yielded) \subseteq Range(completion)
    /\ \A i, j \in 1..Len(yielded) :
          i < j =>
              \/ {yielded[i], yielded[j]} \subseteq finished_at_call
              \/ Pos(completion, yielded[i]) < Pos(completion, yielded[j])

\* a pool of two threads and three tasks: the two that ended before the
\* loop began reached it in the other order, the third came after them
C9_Witness ==
    /\ pc = "Done" /\ max_threads = 2 /\ total_files = 3
    /\ completion = <<1, 2, 3>>
    /\ finished_at_call = {1, 2}
    /\ yielded = <<2, 1, 3>>

\* C10: the pool size is min(2 * cpu_count, 32), at least 1, with an
\* unknown CPU count taken as 1; 1, 4 and 64 CPUs give 2, 8 and 32.
C10_PoolSize ==
    pc = "Dispatching" =>
        LET n == IF cpu_count = <<>> THEN 1 ELSE cpu_count[1]
        IN  /\ cpu_cores = n
            /\ max_threads = (IF 2 * n <= 32 THEN 2 * n ELSE 32)
            /\ max_threads >= 1
            /\ cpu_count = <<1>> => max_threads = 2
            /\ cpu_count = <<4>> => max_threads = 8
            /\ cpu_count = <<64>> => max_threads = 32

C10_Witness == pc = "Dispatching" /\ cpu_count = <<64>> /\ max_threads = 32

\* a string of whitespace only, the empty one included
Blank(s) == \A i \in 1..Len(s) : IsSpace(s[i])

\* the last line of a stream that is not blank, read off the stream itself
LastNonBlankLine(stream) ==
    LET lines == Split(stream, "\n")
        k == CHOOSE i \in 1..Len(lines) :
                 /\ ~Blank(lines[i])
                 /\ \A j \in (i + 1)..Len(lines) : Blank(lines[j])
    IN  lines[k]

\* the call of task t ended with the process exiting non-zero
ExitedNonZero(t) ==
    /\ Finished(t)
    /\ met[t][1].early = NoException /\ met[t][1].exists
    /\ met[t][1].launch = NoException /\ met[t][1].returncode # 0

\* C11: when the process exits non-zero the result is a failure whose error
\* is the last non-empty line of the error stream (whitespace around it
\* aside), and "unknown error" when the stream is empty or blank.
C11_LastLineOrUnknown ==
    \A t \in Tasks :
        ExitedNonZero(t) =>
            /\ ~future[t].outcome.raised
            /\ ~future[t].outcome.result.success
            /\ IF Blank(met[t][1].stderr)
               THEN future[t].outcome.result.error = <<"unknown error">>
               ELSE Strip(future[t].outcome.result.error) =
                        Strip(LastNonBlankLine(met[t][1].stderr))

\* what the code does: the claim for the streams that are not blank, and an
\* empty error for the blank ones
C11_AsCoded ==
    \A t \in Tasks :
        ExitedNonZero(t) =>
            /\ ~future[t].outcome.raised
            /\ ~future[t].outcome.result.success
            /\ IF Blank(met[t][1].stderr)
               THEN future[t].outcome.result.error = <<>>
               ELSE Strip(future[t].outcome.result.error) =
                        Strip(LastNonBlankLine(met[t][1].stderr))

\* the call of task t found its input file gone
FileMissing(t) ==
    Finished(t) /\ met[t][1].early = NoException /\ ~met[t][1].exists

\* the call of task t met a converter that ran and exited with 0
RanWell(t) ==
    /\ Finished(t)
    /\ met[t][1].early = NoException /\ met[t][1].exists
    /\ met[t][1].launch = NoException /\ met[t][1].returncode = 0

\* C12: a call that finds its input file gone returns a failure with the
\* error "file not found" and never runs the external process; the other
\* tasks are not affected: theirs is run, a call whose converter exits with
\* 0 is a success, and the run ends with every task consumed and counted.
C12_MissingFileFails ==
    /\ \A t \in Tasks :
          FileMissing(t) =>
              /\ ~future[t].outcome.raised
              /\ ~future[t].outcome.result.success
              /\ future[t].outcome.result.error = <<"file not found">>
              /\ future[t].outcome.result.filename = Basename(future_to_file[t])
              /\ t \notin launched
    /\ \A u \in Tasks :
          RanWell(u) =>
              /\ u \in launched
              /\ ~future[u].outcome.raised
              /\ future[u].outcome.result.success
    /\ pc = "Done" =>
          /\ Range(yielded) = Tasks
          /\ success_count = Cardinality({u \in Tasks : RanWell(u)})
          /\ failed_count = Cardinality({u \in Tasks : ~RanWell(u)})

\* the first file was gone and the second converted after it
C12_Witness ==
    /\ pc = "Done" /\ total_files = 2
    /\ FileMissing(1) /\ RanWell(2)
    /\ completion = <<1, 2>>
    /\ success_count = 1 /\ failed_count = 1
    /\ launched = {2}

\* C13: over a run of N files the progress reporter shows the counts in
\* order, one more at each result; for a result before the last the
\* progress rendered is below 100% and the line is left open; the last
\* result, and no other, renders 100% and ends the line.
C13_HundredPercentOnce ==
    \A i \in 1..Len(bar) :
        /\ bar[i].iteration = processed_count - Len(bar) + i
        /\ bar[i].iteration >= 1 /\ bar[i].iteration <= total_files
        /\ bar[i].iteration < total_files =>
              (bar[i].percent < 1000 /\ ~bar[i].newline)
        /\ bar[i].iteration = total_files =>
              (bar[i].percent = 1000 /\ bar[i].newline /\ i = Len(bar))

\* what the code keeps of it: the bar is full, and the line ended, at the
\* last result only
FullBarOnlyAtEnd ==
    \A i \in 1..Len(bar) :
        /\ bar[i].iteration = processed_count - Len(bar) + i
        /\ (bar[i].filled_length = BarLength) = (bar[i].iteration = total_files)
        /\ bar[i].newline = (bar[i].iteration = total_files)
        /\ bar[i].iteration = total_files => bar[i].percent = 1000

\* the duration recorded for task t: the time of the result its call
\* returned, and 0 for a call that raised (line 146)
DurationOf(t) ==
    IF met[t][1].early = NoException THEN met[t][1].elapsed ELSE 0

RECURSIVE SumOfDurations(_)
SumOfDurations(S) ==
    IF S = {} THEN 0
    ELSE LET t == CHOOSE x \in S : TRUE
         IN  DurationOf(t) + SumOfDurations(S \ {t})

\* C14: the average time per file of the report is the sum of the durations
\* recorded for the N tasks, each counted once, over total_files; the
\* running total is at every turn the sum over the tasks consumed; and the
\* average of no file is 0.
C14_AverageTime ==
    /\ total_processing_time = SumOfDurations(Range(yielded))
    /\ pc = "Done" =>
          /\ total_files > 0
          /\ report[1].avg_time_per_file =
                Quotient(SumOfDurations(1..total_files), total_files)
    /\ \A total_time \in 0..(MaxFiles * MaxElapsed) :
          AvgTimePerFile(total_time, 0) = Zero

\* three files: a call that raised, a failure of 3 ticks, a success of 2
C14_Witness ==
    /\ pc = "Done" /\ total_files = 3
    /\ \E t \in Tasks : future[t].outcome.raised
    /\ success_count = 1 /\ failed_count = 2
    /\ report[1].avg_time_per_file = Quotient(5, 3)

\* C15: the throughput of the report is the number of successes over the
\* duration of the run, and 0 when that duration is 0; nothing is divided
\* by zero.
C15_Throughput ==
    pc = "Done" =>
        LET d == report[1].total_duration
            fps == report[1].files_per_second
            successes == Cardinality({t \in Tasks : RanWell(t)})
        IN  /\ fps.den # 0
            /\ report[1].avg_time_per_file.den # 0
            /\ IF d = 0 THEN fps = Zero ELSE fps = Quotient(successes, d)

\* a run too short for the clock, with two successes
C15_Witness ==
    /\ pc = "Done" /\ report[1].total_duration = 0
    /\ success_count = 2 /\ report[1].success = 2
    /\ report[1].files_per_second = Zero

\* The state of the run.  A run that the listing error ends in discovery has
\* aborted before any dispatch, as the run that finds no file has.
Phase == IF pc = "Raised" THEN "Aborted" ELSE pc

PhaseSteps ==
    {<<"Idle", "Discovering">>, <<"Discovering", "Aborted">>,
     <<"Discovering", "Dispatching">>, <<"Dispatching", "Collecting">>,
     <<"Collecting", "Reporting">>, <<"Reporting", "Done">>}

FutureSteps == {<<"PENDING", "RUNNING">>, <<"RUNNING", "FINISHED">>}

\* C17: in a pool of two or more threads with one call hanging for ever,
\* every other task is in the end run and its result consumed by the loop;
\* the run is not in Reporting or Done while a task is unresolved, and so
\* never once the hanging call is submitted; no task is cancelled or timed
\* out: a future only goes from pending to running to finished, and the
\* hanging call, once running, runs for ever.
C17_OthersProgress ==
    /\ \A t \in 1..MaxFiles :
          [](t \in Tasks /\ t # hung => <>(t \in Range(yielded)))
    /\ []((\E t \in Tasks : ~Finished(t)) => pc \notin {"Reporting", "Done"})
    /\ [](hung \in Tasks => [](pc \notin {"Reporting", "Done"}))
    /\ [](hung \in running =>
            [](hung \in running /\ future[hung].state = "RUNNING"))
    /\ [][\A t \in Tasks :
            future'[t].state # future[t].state =>
                <<future[t].state, future'[t].state>> \in FutureSteps]_vars

\* the first call hangs in one worker while the other worker has run the
\* two other tasks, and the loop has consumed them
C17_Witness ==
    /\ pc = "Collecting" /\ total_files = 3 /\ max_threads = 2
    /\ hung = 1 /\ running = {1}
    /\ yielded = <<2, 3>>

\* C18: the counters and the display are changed by the main thread only.
\* A step of a worker (it takes a task or ends its call) changes the future
\* of one task and nothing of the counters, the display or the loop; a step
\* that changes a counter or the display is a step of main() and leaves
\* the pool as it is; and each change of the counters is one whole update:
\* one more result processed, one more success or one more failure.
C18_OnlyMainUpdates ==
    [][/\ running' # running =>
            /\ UNCHANGED <<pc, statVars, outVars, loopVars, future_to_file>>
            /\ \E t \in Tasks :
                  /\ future'[t] # future[t]
                  /\ \A u \in Tasks \ {t} :
                        future'[u] = future[u] /\ met'[u] = met[u]
       /\ (statVars' # statVars \/ outVars' # outVars) =>
            /\ UNCHANGED poolVars
            /\ pc \in {"Discovering", "Collecting", "Reporting"}
       /\ statVars' # statVars =>
            /\ processed_count' = processed_count + 1
            /\ \/ (success_count' = success_count + 1 /\ failed_count' = failed_count)
               \/ (failed_count' = failed_count + 1 /\ success_count' = success_count)
            /\ total_processing_time' >= total_processing_time]_vars

\* two calls have ended and a third runs in its worker while the loop has
\* counted one result
C18_Witness ==
    /\ pc = "Collecting" /\ total_files = 3
    /\ processed_count = 1 /\ success_count = 1
    /\ completion = <<1, 2>> /\ running = {3}

\* C19: the figures are computed and the report is printed only once all N
\* results are consumed and every worker is done: from the moment main()
\* is at the figures no task is pending or running, the queue is empty and
\* processed_count is total_files; before that moment nothing of the report
\* is printed; and the counters do not change any more.
C19_ReportAfterAll ==
    /\ pc \in {"Reporting", "Done"} =>
          /\ running = {} /\ work_queue = <<>>
          /\ \A t \in Tasks : future[t].state = "FINISHED"
          /\ Len(completion) = total_files
          /\ processed_count = total_files
          /\ Len(bar) = total_files
    /\ pc # "Done" => (report = <<>> /\ failure_list = <<>>)
    /\ pc = "Done" =>
          /\ Len(report) = 1
          /\ report[1].success = success_count
          /\ report[1].failed = failed_count
          /\ report[1].success + report[1].failed = total_files

\* main() at the figures after a pool of four threads has run three tasks
C19_Witness ==
    /\ pc = "Reporting" /\ total_files = 3 /\ max_threads = 4
    /\ num_threads = 3 /\ running = {}
    /\ processed_count = 3 /\ report = <<>>

\* the tasks whose call returned a failure, as what their calls met tells
ReturnedFailure == {t \in Tasks : met[t][1].early = NoException /\ ~RanWell(t)}

\* the place of such a task among them, in the order of submission
RankOf(t) == Cardinality({u \in ReturnedFailure : u <= t})

\* the error of a call that returned a failure, as what it met tells
ErrorTold(env, error) ==
    IF ~env.exists THEN error = <<"file not found">>
    ELSE IF env.launch # NoException
         THEN error = <<"system error: ", env.launch>>
    ELSE IF Blank(env.stderr) THEN error = <<>>
    ELSE Strip(error) = Strip(LastNonBlankLine(env.stderr))

\* C20: the failure list and the counts of the report are a function of the
\* files and of what each call met, not of the order in which the calls
\* ended or their results reached the loop: the list holds the tasks that
\* returned a failure in the order of submission (that of the discovered
\* files), each with its file name and error, and the counts are the
\* numbers of successes and of other outcomes.
C20_FailureListInSubmissionOrder ==
    /\ \A t \in Tasks : future_to_file[t] = otf_files[t]
    /\ pc = "Done" =>
          /\ Len(failure_list) = Cardinality(ReturnedFailure)
          /\ \A t \in ReturnedFailure :
                /\ failure_list[RankOf(t)].filename = Basename(otf_files[t])
                /\ ErrorTold(met[t][1], failure_list[RankOf(t)].error)
          /\ report[1].success = Cardinality({t \in Tasks : RanWell(t)})
          /\ report[1].failed = total_files - report[1].success

\* the results reached the loop in the reverse of the order of submission,
\* and the first and the third file are listed, in that order
C20_Witness ==
    /\ pc = "Done" /\ yielded = <<3, 2, 1>>
    /\ Len(failure_list) = 2
    /\ failure_list[1].filename.stem = 1
    /\ failure_list[2].filename.stem = 3
    /\ failure_list[1].error # failure_list[2].error

====
